---- MODULE Spec2Model ----
(***************************************************************************)
(* Movie catalogue service: the HTTP handlers of src/src/routes/movies.py  *)
(* on top of the data-access functions of src/src/crud/movies.py, as       *)
(* request tasks that interleave at their store calls (every `await db.`). *)
(*                                                                         *)
(*   Spec      the service as the router exposes it: list, get, create,    *)
(*             update and delete requests.                                 *)
(*   CrudSpec  crud.update_movie called with a dict, as its signature      *)
(*             declares, which is the only path that reaches               *)
(*             _get_or_create.                                             *)
(*                                                                         *)
(* The tables, their uniqueness constraints and the session factory live   *)
(* in the `database` package, outside the modules modelled here; the store *)
(* operators that stand for it say so.                                     *)
(***************************************************************************)
EXTENDS Integers, Sequences, FiniteSets, TLC

VARIABLES
    movies,     \* committed Movie rows: id -> row
    lookups,    \* committed lookup rows: kind -> set of [id, key]
    nextId,     \* per lookup table, the next auto-assigned id
    pc,         \* per task: the store call it is suspended at
    loc,        \* per task: the locals of the suspended handler
    last        \* the response (or raised error) the last step produced

vars == <<movies, lookups, nextId, pc, loc, last>>

----------------------------------------------------------------------------
\* Bounds of the model.

Tasks == {"t1", "t2"}

SeedMovies == 3
MaxPage == 3
MaxPerPage == 2
MaxNewIds == 2

\* Program constants.
PerPageLimit == 100
MaxFutureDays == 365
NameMaxLen == 255

----------------------------------------------------------------------------
\* Values.

NoneV == [kind |-> "none"]
Scalar(v) == [kind |-> "scalar", v |-> v]
List(s) == [kind |-> "list", items |-> s]

Kinds == {"country", "genres", "actors", "languages"}
ListKinds == {"genres", "actors", "languages"}

NoLoc == [op |-> "none"]
NoEvent == [op |-> "none"]

Min(a, b) == IF a < b THEN a ELSE b

RECURSIVE SortedIds(_)
SortedIds(S) ==
    IF S = {} THEN <<>>
    ELSE LET m == CHOOSE x \in S : \A y \in S : x <= y
         IN  <<m>> \o SortedIds(S \ {m})

Range(s) == {s[i] : i \in DOMAIN s}

----------------------------------------------------------------------------
\* The seeded store.

SeedMovie(i) ==
    [name      |-> IF i % 2 = 1 THEN "A" ELSE "B",
     date      |-> i \div 2,
     score     |-> 50,
     country   |-> IF i % 3 = 0 THEN {} ELSE {1},
     genres    |-> IF i = 1 THEN {1, 2} ELSE IF i % 2 = 0 THEN {1} ELSE {},
     actors    |-> {},
     languages |-> {}]

SeedLookups ==
    [k \in Kinds |->
        CASE k = "country" -> {[id |-> 1, key |-> "US"]}
          [] k = "genres"  -> {[id |-> 1, key |-> "Action"],
                               [id |-> 2, key |-> "Comedy"]}
          [] OTHER         -> {}]

----------------------------------------------------------------------------
\* crud/movies.py: reads.

\* get_movie_by_id: the row, or MovieNotFoundException.
get_movie_by_id(movie_id, mv) ==
    IF movie_id \in DOMAIN mv
    THEN [error |-> "none", movie |-> mv[movie_id]]
    ELSE [error |-> "MovieNotFoundException"]

\* get_movies_page, first store call: select count(*) from movies.
CountMovies(mv) == Cardinality(DOMAIN mv)

\* get_movies_page, second store call: order by id, offset, limit.
SelectPageIds(ids, offset, limit) ==
    LET s == SortedIds(ids)
        hi == Min(offset + limit, Len(s))
    IN  IF offset >= hi THEN <<>> ELSE SubSeq(s, offset + 1, hi)

\* MovieResponseSchema: the list item built from a row.
MovieItem(mv, i) ==
    [id |-> i, name |-> mv[i].name, date |-> mv[i].date, score |-> mv[i].score]

SelectPage(mv, offset, limit) ==
    LET ids == SelectPageIds(DOMAIN mv, offset, limit)
    IN  [n \in DOMAIN ids |-> MovieItem(mv, ids[n])]

----------------------------------------------------------------------------
\* routes/movies.py: list_movies.

\* Query(1, ge=1) and Query(10, ge=1, le=100).
ValidListQuery(page, per_page) ==
    page >= 1 /\ per_page >= 1 /\ per_page <= PerPageLimit

\* Faulty variant: the page number is taken as 0-based.
ListOffsetZeroBased(page, per_page) == page * per_page

ListOffset(page, per_page) == (page - 1) * per_page

PageLink(page, per_page) == [page |-> page, per_page |-> per_page]

\* Faulty variant: without the check for an empty table.
list_response_no_empty_check(page, per_page, rows, total) ==
    LET offset == ListOffset(page, per_page) IN
    IF offset >= total /\ total > 0
    THEN [status |-> 404, detail |-> "Movie page not found"]
    ELSE [status      |-> 200,
          movies      |-> rows,
          prev_page   |-> IF page > 1
                          THEN {PageLink(page - 1, per_page)} ELSE {},
          next_page   |-> IF offset + per_page < total
                          THEN {PageLink(page + 1, per_page)} ELSE {},
          total_pages |-> (total + per_page - 1) \div per_page,
          total_items |-> total]

\* The handler after get_movies_page returned (rows, total).
list_response(page, per_page, rows, total) ==
    LET offset == ListOffset(page, per_page) IN
    IF total = 0
    THEN [status |-> 404, detail |-> "No movies found"]
    ELSE IF offset >= total /\ total > 0
    THEN [status |-> 404, detail |-> "Movie page not found"]
    ELSE [status      |-> 200,
          movies      |-> rows,
          prev_page   |-> IF page > 1
                          THEN {PageLink(page - 1, per_page)} ELSE {},
          next_page   |-> IF offset + per_page < total
                          THEN {PageLink(page + 1, per_page)} ELSE {},
          total_pages |-> (total + per_page - 1) \div per_page,
          total_items |-> total]

----------------------------------------------------------------------------
\* routes/movies.py: get_movie.

LookupRow(lk, kind, i) == CHOOSE r \in lk[kind] : r.id = i

\* MovieDetailSchema: `country` is not optional, so a movie without a
\* country fails the response validation, which the handler does not catch.
get_movie(movie_id, mv, lk) ==
    LET r == get_movie_by_id(movie_id, mv) IN
    IF r.error = "MovieNotFoundException"
    THEN [status |-> 404, detail |-> "Movie with the given ID was not found."]
    ELSE IF r.movie.country = {}
    THEN [status |-> 500, detail |-> "ValidationError"]
    ELSE [status    |-> 200,
          id        |-> movie_id,
          name      |-> r.movie.name,
          date      |-> r.movie.date,
          score     |-> r.movie.score,
          country   |-> {LookupRow(lk, "country", i) : i \in r.movie.country},
          genres    |-> {LookupRow(lk, "genres", i) : i \in r.movie.genres},
          actors    |-> {LookupRow(lk, "actors", i) : i \in r.movie.actors},
          languages |-> {LookupRow(lk, "languages", i) :
                            i \in r.movie.languages}]

----------------------------------------------------------------------------
\* crud/movies.py and routes/movies.py: create.

Fields == {"name", "date", "score", "country", "genres", "actors", "languages"}

\* MovieCreateSchema, as the framework validates the body before the handler.
ValidCreate(p) ==
    /\ Len(p.name) >= 1 /\ Len(p.name) <= NameMaxLen
    /\ p.date <= MaxFutureDays
    /\ p.score >= 0 /\ p.score <= 100
    /\ Len(p.country) >= 2 /\ Len(p.country) <= 5

\* Faulty variant: a lookup row is committed before the call fails.
create_movie_leaving_a_row(movie_data, mv, lk) ==
    [error   |-> "AttributeError",
     movies  |-> mv,
     lookups |-> [lk EXCEPT !["country"] =
                    @ \cup {[id |-> Cardinality(@) + 1,
                             key |-> movie_data.country]}]]

\* create_movie: `await db.execute(...).scalar_one_or_none()` binds as
\* `await (db.execute(...).scalar_one_or_none())`; the coroutine execute()
\* returns has no such attribute, so the call raises AttributeError before
\* the duplicate check reaches the store, and nothing after it runs.
create_movie(movie_data, mv, lk) ==
    [error |-> "AttributeError", movies |-> mv, lookups |-> lk]

\* The handler's except clauses; anything else is a server error.
create_status(error) ==
    CASE error = "none" -> 201
      [] error = "ValidationError" -> 400
      [] error = "MovieAlreadyExistsException" -> 409
      [] OTHER -> 500

----------------------------------------------------------------------------
\* schemas/movies.py: MovieUpdateSchema.

\* Fields declared without a default are required (they may be null).
UpdateRequired == {"date", "country", "genres", "actors", "languages"}

ValidUpdate(body) ==
    /\ UpdateRequired \subseteq DOMAIN body
    /\ ("name" \in DOMAIN body /\ body["name"].kind = "scalar")
          => (Len(body["name"].v) >= 1 /\ Len(body["name"].v) <= NameMaxLen)
    /\ body["date"].kind = "scalar" => body["date"].v <= MaxFutureDays

\* The parsed model: every declared field is an attribute, None by default.
UpdateSchema(body) ==
    [type   |-> "MovieUpdateSchema",
     fields |-> [f \in Fields |-> IF f \in DOMAIN body THEN body[f] ELSE NoneV]]

\* What crud.update_movie is declared to take.
Dict(items) == [type |-> "dict", items |-> items]

\* update_movie up to its first use of movie_data: get_movie_by_id, then
\* movie_data.items(), which only a dict has.
update_fetch(movie_id, movie_data, mv) ==
    LET r == get_movie_by_id(movie_id, mv) IN
    IF r.error # "none" THEN [error |-> r.error]
    ELSE IF movie_data.type # "dict" THEN [error |-> "AttributeError"]
    ELSE [error |-> "none", movie |-> r.movie, items |-> movie_data.items]

update_status(error) ==
    CASE error = "none" -> 200
      [] error = "ValidationError" -> 400
      [] error = "MovieNotFoundException" -> 404
      [] OTHER -> 500

----------------------------------------------------------------------------
\* crud/movies.py: _get_or_create.

\* The rows a session sees: the committed ones and its own flushed ones.
Visible(lk, pending, kind) == lk[kind] \cup pending[kind]

\* Faulty variant: the select without its where clause.
goc_find_unfiltered(rows, key) == rows

\* select(model).where(column == value), scalar_one_or_none().
goc_find(rows, key) == {r \in rows : r.key = key}

\* model(**kwargs), db.add, db.flush: the new row with its assigned id.
goc_new(id, key) == [id |-> id, key |-> key]

\* The store's uniqueness constraint on the natural key, as the flush's
\* INSERT meets it: a committed row with the key makes the INSERT fail ...
UniqueViolation(lk, kind, key) == \E r \in lk[kind] : r.key = key

\* ... and another session's uncommitted row with the key makes it wait
\* for that session to commit or roll back.
InsertWaits(t, kind, key) ==
    \E u \in Tasks \ {t} :
        /\ loc[u].op = "update"
        /\ \E r \in loc[u].pending[kind] : r.key = key

----------------------------------------------------------------------------
\* crud/movies.py: update_movie, from movie_data.items() on.

RelatedModels == Kinds

NoCur == [mode |-> "none"]

\* setattr(movie, key, value): the attribute is now dirty.
SetAttr(l, key, value) ==
    [l EXCEPT !.movie = [@ EXCEPT ![key] = value],
              !.dirty = @ \cup {key}]

\* The handler runs from one store call to the next without suspending:
\* the loop over movie_data.items() up to the next _get_or_create select,
\* or up to db.commit() when the items are exhausted.
RECURSIVE Advance(_)
Advance(l) ==
    IF l.cur.mode = "list"
    THEN IF l.cur.rest = <<>>
         THEN Advance([SetAttr(l, l.cur.key, l.cur.objs) EXCEPT !.cur = NoCur])
         ELSE [at |-> "goc_select",
               l  |-> [l EXCEPT !.goc = [kind |-> l.cur.key,
                                         key  |-> Head(l.cur.rest)]]]
    ELSE IF l.items = <<>>
    THEN [at |-> "commit", l |-> l]
    ELSE LET it == Head(l.items)
             l1 == [l EXCEPT !.items = Tail(@)]
         IN  IF it.value.kind = "none"
             THEN Advance(l1)
             ELSE IF it.key \in RelatedModels
             THEN IF it.value.kind = "list"
                  THEN Advance([l1 EXCEPT !.cur =
                                   [mode |-> "list", key |-> it.key,
                                    rest |-> it.value.items, objs |-> {}]])
                  ELSE [at |-> "goc_select",
                        l  |-> [l1 EXCEPT
                                  !.cur = [mode |-> "scalar", key |-> it.key],
                                  !.goc = [kind |-> it.key,
                                           key  |-> it.value.v]]]
             ELSE Advance(SetAttr(l1, it.key, it.value.v))

\* _get_or_create returned the row with this id to update_movie.
Resolved(l, id) ==
    IF l.cur.mode = "list"
    THEN Advance([l EXCEPT !.cur.objs = @ \cup {id}, !.cur.rest = Tail(@)])
    ELSE Advance([SetAttr(l, l.cur.key, {id}) EXCEPT !.cur = NoCur])

\* db.commit(): the dirty attributes of the movie (its association sets
\* among them) and the flushed lookup rows become the committed state.
commit_movies(mv, l) ==
    IF l.movie_id \in DOMAIN mv
    THEN [mv EXCEPT ![l.movie_id] =
            [f \in DOMAIN @ |-> IF f \in l.dirty THEN l.movie[f] ELSE @[f]]]
    ELSE mv

commit_lookups(lk, l) == [k \in Kinds |-> lk[k] \cup l.pending[k]]

----------------------------------------------------------------------------
\* crud/movies.py and routes/movies.py: delete.

\* Faulty variant: the delete cascades to the genres of the movie.
delete_movie_cascading(movie_id, mv, lk) ==
    [movies  |-> [i \in DOMAIN mv \ {movie_id} |-> mv[i]],
     lookups |-> IF movie_id \in DOMAIN mv
                 THEN [lk EXCEPT !["genres"] =
                         {r \in @ : r.id \notin mv[movie_id].genres}]
                 ELSE lk]

\* db.delete(movie) and commit: the Movie row and its join-table rows go;
\* the lookup tables are not touched.
delete_movie(movie_id, mv, lk) ==
    [movies  |-> [i \in DOMAIN mv \ {movie_id} |-> mv[i]],
     lookups |-> lk]

delete_status(error) ==
    CASE error = "none" -> 204
      [] error = "MovieNotFoundException" -> 404
      [] OTHER -> 500

----------------------------------------------------------------------------
\* Inputs.

PageInputs == 0 .. MaxPage
PerPageInputs == (0 .. MaxPerPage) \cup {PerPageLimit + 1}
MovieIdInputs == 1 .. (SeedMovies + 1)

CreateInputs ==
    {[name |-> n, date |-> d, score |-> 50, country |-> "US",
      genres |-> <<"Drama">>, actors |-> <<>>, languages |-> <<>>] :
        n \in {"", "A", "C"}, d \in {0, MaxFutureDays + 1}}

UpdateBase ==
    [date |-> NoneV, country |-> NoneV, genres |-> List(<<"Drama">>),
     actors |-> NoneV, languages |-> NoneV]

UpdateBodies ==
    {UpdateBase,
     ("name" :> Scalar("C")) @@ UpdateBase,
     ("name" :> NoneV) @@ UpdateBase,
     ("name" :> Scalar("C")),
     [UpdateBase EXCEPT !["date"] = Scalar(MaxFutureDays + 1)]}

\* Dicts for crud.update_movie, typed as the update schema types its fields.
Item(key, value) == [key |-> key, value |-> value]

DictInputs ==
    {<<Item("genres", List(<<"Drama">>))>>,
     <<Item("score", Scalar(90)), Item("genres", List(<<"Action", "Drama">>))>>,
     <<Item("country", Scalar("UA")), Item("genres", NoneV),
       Item("languages", List(<<>>))>>}

CrudIdInputs == {1, SeedMovies + 1}

Event(t, op, req, resp) == [task |-> t, op |-> op, req |-> req, resp |-> resp]

----------------------------------------------------------------------------
Init ==
    /\ movies = [i \in 1 .. SeedMovies |-> SeedMovie(i)]
    /\ lookups = SeedLookups
    /\ nextId = [k \in Kinds |-> Cardinality(SeedLookups[k]) + 1]
    /\ pc = [t \in Tasks |-> "idle"]
    /\ loc = [t \in Tasks |-> NoLoc]
    /\ last = NoEvent

\* GET /movies with a query the framework rejects.
ListRejected(t) ==
    /\ pc[t] = "idle"
    /\ \E page \in PageInputs, per_page \in PerPageInputs :
        /\ ~ValidListQuery(page, per_page)
        /\ last' = Event(t, "list", [page |-> page, per_page |-> per_page],
                         [status |-> 422])
    /\ UNCHANGED <<movies, lookups, nextId, pc, loc>>

\* GET /movies, up to the count query of get_movies_page.
ListCount(t) ==
    /\ pc[t] = "idle"
    /\ \E page \in PageInputs, per_page \in PerPageInputs :
        /\ ValidListQuery(page, per_page)
        /\ loc' = [loc EXCEPT ![t] =
                     [op |-> "list", page |-> page, per_page |-> per_page,
                      total |-> CountMovies(movies)]]
    /\ pc' = [pc EXCEPT ![t] = "list_page"]
    /\ last' = NoEvent
    /\ UNCHANGED <<movies, lookups, nextId>>

\* GET /movies, the page query and the response.
ListPage(t) ==
    /\ pc[t] = "list_page"
    /\ LET l == loc[t]
           rows == SelectPage(movies, ListOffset(l.page, l.per_page), l.per_page)
       IN  last' = Event(t, "list", [page |-> l.page, per_page |-> l.per_page],
                         list_response(l.page, l.per_page, rows, l.total))
    /\ pc' = [pc EXCEPT ![t] = "idle"]
    /\ loc' = [loc EXCEPT ![t] = NoLoc]
    /\ UNCHANGED <<movies, lookups, nextId>>

\* GET /movies/{id}.
GetMovie(t) ==
    /\ pc[t] = "idle"
    /\ \E id \in MovieIdInputs :
        last' = Event(t, "get", [movie_id |-> id], get_movie(id, movies, lookups))
    /\ UNCHANGED <<movies, lookups, nextId, pc, loc>>

\* POST /movies.
CreateMovie(t) ==
    /\ pc[t] = "idle"
    /\ \E p \in CreateInputs :
        IF ~ValidCreate(p)
        THEN /\ last' = Event(t, "create", p, [status |-> 422])
             /\ UNCHANGED <<movies, lookups>>
        ELSE LET r == create_movie(p, movies, lookups) IN
             /\ movies' = r.movies
             /\ lookups' = r.lookups
             /\ last' = Event(t, "create", p,
                              [status |-> create_status(r.error),
                               error |-> r.error])
    /\ UNCHANGED <<nextId, pc, loc>>

\* PATCH /movies/{id}: the body is parsed, and crud.update_movie is called
\* with the parsed model.
UpdateMovie(t) ==
    /\ pc[t] = "idle"
    /\ \E id \in MovieIdInputs, body \in UpdateBodies :
        LET req == [movie_id |-> id, body |-> body] IN
        IF ~ValidUpdate(body)
        THEN last' = Event(t, "update", req, [status |-> 422])
        ELSE LET r == update_fetch(id, UpdateSchema(body), movies) IN
             last' = Event(t, "update", req,
                           [status |-> update_status(r.error),
                            error |-> r.error])
    /\ UNCHANGED <<movies, lookups, nextId, pc, loc>>

\* DELETE /movies/{id}, up to get_movie_by_id.
DeleteFetch(t) ==
    /\ pc[t] = "idle"
    /\ \E id \in MovieIdInputs :
        LET r == get_movie_by_id(id, movies) IN
        IF r.error # "none"
        THEN /\ last' = Event(t, "delete", [movie_id |-> id],
                              [status |-> delete_status(r.error)])
             /\ UNCHANGED <<pc, loc>>
        ELSE /\ pc' = [pc EXCEPT ![t] = "delete_commit"]
             /\ loc' = [loc EXCEPT ![t] = [op |-> "delete", movie_id |-> id]]
             /\ last' = NoEvent
    /\ UNCHANGED <<movies, lookups, nextId>>

\* DELETE /movies/{id}: db.delete(movie) and db.commit(). When another task
\* deleted the row meanwhile, the flush matches no row: the mapper either
\* only warns or raises StaleDataError, depending on the rows it expected.
DeleteCommit(t) ==
    /\ pc[t] = "delete_commit"
    /\ LET id == loc[t].movie_id
           r == delete_movie(id, movies, lookups)
       IN  /\ movies' = r.movies
           /\ lookups' = r.lookups
           /\ \E error \in IF id \in DOMAIN movies
                           THEN {"none"} ELSE {"none", "StaleDataError"} :
                last' = Event(t, "delete", [movie_id |-> id],
                              [status |-> delete_status(error)])
    /\ pc' = [pc EXCEPT ![t] = "idle"]
    /\ loc' = [loc EXCEPT ![t] = NoLoc]
    /\ UNCHANGED nextId

\* A task is cancelled while suspended at a store call: its session is
\* closed, which rolls back whatever it had not committed.
Cancel(t) ==
    /\ pc[t] # "idle"
    /\ pc' = [pc EXCEPT ![t] = "idle"]
    /\ loc' = [loc EXCEPT ![t] = NoLoc]
    /\ last' = Event(t, "cancelled", [op |-> loc[t].op], [error |-> "CancelledError"])
    /\ UNCHANGED <<movies, lookups, nextId>>

----------------------------------------------------------------------------
\* crud.update_movie(movie_id, movie_data: dict, db), store call by store call.

\* get_movie_by_id, then the synchronous run to the next store call.
UpdateCall(t) ==
    /\ pc[t] = "idle"
    /\ \E id \in CrudIdInputs, d \in DictInputs :
        LET req == [movie_id |-> id, data |-> d]
            r == update_fetch(id, Dict(d), movies)
        IN  IF r.error # "none"
            THEN /\ last' = Event(t, "update", req, [error |-> r.error])
                 /\ UNCHANGED <<pc, loc>>
            ELSE LET a == Advance([op |-> "update", movie_id |-> id,
                                   req |-> req, movie |-> r.movie,
                                   dirty |-> {}, items |-> r.items,
                                   cur |-> NoCur,
                                   goc |-> [kind |-> "none"],
                                   pending |-> [k \in Kinds |-> {}]])
                 IN  /\ pc' = [pc EXCEPT ![t] = a.at]
                     /\ loc' = [loc EXCEPT ![t] = a.l]
                     /\ last' = NoEvent
    /\ UNCHANGED <<movies, lookups, nextId>>

\* _get_or_create: the select.
GocSelect(t) ==
    /\ pc[t] = "goc_select"
    /\ LET l == loc[t]
           found == goc_find(Visible(lookups, l.pending, l.goc.kind), l.goc.key)
       IN  IF found # {}
           THEN LET row == CHOOSE r \in found : TRUE
                    a == Resolved(l, row.id)
                IN  /\ pc' = [pc EXCEPT ![t] = a.at]
                    /\ loc' = [loc EXCEPT ![t] = a.l]
                    /\ last' = Event(t, "resolve", l.goc, [id |-> row.id])
           ELSE /\ pc' = [pc EXCEPT ![t] = "goc_flush"]
                /\ last' = NoEvent
                /\ UNCHANGED loc
    /\ UNCHANGED <<movies, lookups, nextId>>

\* _get_or_create: db.add and db.flush. A constraint violation is not
\* caught anywhere: it ends update_movie, and the session rolls back.
GocFlush(t) ==
    /\ pc[t] = "goc_flush"
    /\ LET l == loc[t]
           kind == l.goc.kind
       IN  /\ ~InsertWaits(t, kind, l.goc.key)
           /\ IF UniqueViolation(lookups, kind, l.goc.key)
              THEN /\ pc' = [pc EXCEPT ![t] = "idle"]
                   /\ loc' = [loc EXCEPT ![t] = NoLoc]
                   /\ last' = Event(t, "update", l.req,
                                    [error |-> "IntegrityError"])
                   /\ UNCHANGED nextId
              ELSE /\ nextId[kind] <= Cardinality(SeedLookups[kind]) + MaxNewIds
                   /\ LET row == goc_new(nextId[kind], l.goc.key)
                          a == Resolved([l EXCEPT !.pending[kind] =
                                                      @ \cup {row}], row.id)
                      IN  /\ pc' = [pc EXCEPT ![t] = a.at]
                          /\ loc' = [loc EXCEPT ![t] = a.l]
                          /\ last' = Event(t, "resolve", l.goc,
                                           [id |-> row.id])
                   /\ nextId' = [nextId EXCEPT ![kind] = @ + 1]
    /\ UNCHANGED <<movies, lookups>>

\* db.add(movie), db.commit().
UpdateCommit(t) ==
    /\ pc[t] = "commit"
    /\ movies' = commit_movies(movies, loc[t])
    /\ lookups' = commit_lookups(lookups, loc[t])
    /\ pc' = [pc EXCEPT ![t] = "refresh"]
    /\ loc' = [loc EXCEPT ![t] =
                 [op |-> "refresh", movie_id |-> @.movie_id, req |-> @.req]]
    /\ last' = NoEvent
    /\ UNCHANGED nextId

\* db.refresh(movie), return movie.
UpdateRefresh(t) ==
    /\ pc[t] = "refresh"
    /\ LET r == get_movie_by_id(loc[t].movie_id, movies) IN
       last' = Event(t, "update", loc[t].req, r)
    /\ pc' = [pc EXCEPT ![t] = "idle"]
    /\ loc' = [loc EXCEPT ![t] = NoLoc]
    /\ UNCHANGED <<movies, lookups, nextId>>

CrudNext ==
    \E t \in Tasks :
        \/ UpdateCall(t)
        \/ GocSelect(t)
        \/ GocFlush(t)
        \/ UpdateCommit(t)
        \/ UpdateRefresh(t)
        \/ Cancel(t)

CrudSpec == Init /\ [][CrudNext]_vars

----------------------------------------------------------------------------
Next ==
    \E t \in Tasks :
        \/ ListRejected(t)
        \/ ListCount(t)
        \/ ListPage(t)
        \/ GetMovie(t)
        \/ CreateMovie(t)
        \/ UpdateMovie(t)
        \/ DeleteFetch(t)
        \/ DeleteCommit(t)
        \/ Cancel(t)

Spec == Init /\ [][Next]_vars

----------------------------------------------------------------------------
\* Properties of the reconciler (CrudSpec).

UpdatingTasks == {u \in Tasks : loc[u].op = "update"}

\* Every row of a lookup table, committed or flushed by a live session.
AllRows(kind) ==
    lookups[kind] \cup UNION {loc[u].pending[kind] : u \in UpdatingTasks}

\* C1: for every lookup kind and natural key there is at most one row with
\* that key, committed or flushed, under every interleaving of the tasks'
\* store calls; and whenever _get_or_create returns, the row it returns is
\* the one row with the requested key that its session sees.
C1_ExactlyOnePerKey ==
    /\ \A k \in Kinds : \A r1, r2 \in AllRows(k) :
          r1.key = r2.key => r1.id = r2.id
    /\ last.op = "resolve" =>
          {r \in Visible(lookups, loc[last.task].pending, last.req.kind) :
              r.key = last.req.key}
            = {[id |-> last.resp.id, key |-> last.req.key]}

\* A row created during the run is returned to one task while the other
\* task, which missed the same key in its own select, is about to insert it.
C1_Witness ==
    /\ last.op = "resolve"
    /\ \A r \in SeedLookups[last.req.kind] : r.id # last.resp.id
    /\ \E u \in Tasks \ {last.task} :
          pc[u] = "goc_flush" /\ loc[u].goc = last.req

\* C10: no interleaving makes an update that resolves a key end with the
\* store's raw constraint violation: the losing task looks the row up again.
C10_NoRawConstraintError ==
    ~(last.op = "update" /\ last.resp.error = "IntegrityError")

----------------------------------------------------------------------------
\* Properties of the service (Spec).

SameNameDate(a, b) == a.name = b.name /\ a.date = b.date

KeysOf(kind, ids) == {r.key : r \in {x \in lookups[kind] : x.id \in ids}}

\* The movie a create payload describes is stored under id i.
Persisted(p, i) ==
    /\ i \in DOMAIN movies
    /\ SameNameDate(movies[i], p)
    /\ movies[i].score = p.score
    /\ KeysOf("country", movies[i].country) = {p.country}
    /\ \A k \in ListKinds : KeysOf(k, movies[i][k]) = Range(p[k])

\* C2: no two Movie rows share (name, date), and a create whose (name, date)
\* is already stored answers 409.
C2_DuplicateCreateConflicts ==
    /\ \A i, j \in DOMAIN movies : SameNameDate(movies[i], movies[j]) => i = j
    /\ (/\ last.op = "create"
        /\ ValidCreate(last.req)
        /\ \E i \in DOMAIN movies : SameNameDate(movies[i], last.req))
          => last.resp.status = 409

\* C3: a create call that ends leaves either the whole movie (row,
\* associations and the lookup rows it needed) or nothing: when it does not
\* answer 201, the store is as it was before the call's step.
C3_CreateAllOrNothing ==
    [][last'.op = "create" =>
        IF last'.resp.status = 201
        THEN \E i \in DOMAIN movies' \ DOMAIN movies :
                /\ SameNameDate(movies'[i], last'.req)
                /\ \A k \in ListKinds : \A n \in Range(last'.req[k]) :
                      \E r \in lookups'[k] : r.key = n /\ r.id \in movies'[i][k]
        ELSE movies' = movies /\ lookups' = lookups]_vars

\* A valid create call has ended in an error.
C3_Witness ==
    /\ last.op = "create"
    /\ ValidCreate(last.req)
    /\ last.resp.status = 500

\* C4: a valid create whose (name, date) is not stored answers 201, and the
\* movie it describes is then in the store for fetch_by_id.
C4_CreateThenFetch ==
    (/\ last.op = "create"
     /\ ValidCreate(last.req)
     /\ \A i \in DOMAIN movies : ~SameNameDate(movies[i], last.req))
       => /\ last.resp.status = 201
          /\ \E i \in DOMAIN movies : Persisted(last.req, i)

\* C5: after an update of an existing movie with a related list present,
\* the movie's associations for that field are exactly the named rows.
C5_UpdateReplacesAssociations ==
    (/\ last.op = "update"
     /\ ValidUpdate(last.req.body)
     /\ last.req.movie_id \in DOMAIN movies)
       => \A k \in ListKinds :
             last.req.body[k].kind = "list"
               => KeysOf(k, movies[last.req.movie_id][k])
                    = Range(last.req.body[k].items)

NonNullable == {"name", "date", "score"}

\* C6: an update of a missing id answers 404; a null for a non-nullable
\* field is rejected; every other present field is overwritten.
C6_PartialUpdate ==
    (last.op = "update" /\ UpdateRequired \subseteq DOMAIN last.req.body)
      => LET id == last.req.movie_id
             body == last.req.body
             nulls == {f \in DOMAIN body \cap NonNullable :
                          body[f].kind = "none"}
         IN  /\ nulls # {} => last.resp.status \in {400, 422}
             /\ (nulls = {} /\ ValidUpdate(body) /\ id \notin DOMAIN movies)
                  => last.resp.status = 404
             /\ (nulls = {} /\ ValidUpdate(body) /\ id \in DOMAIN movies)
                  => \A f \in DOMAIN body \cap NonNullable :
                        movies[id][f] = body[f].v

CeilDiv(a, b) == (a + b - 1) \div b

ItemIds(rows) == [n \in DOMAIN rows |-> rows[n].id]

Window(ids, offset, limit) ==
    LET s == SortedIds(ids) IN
    [n \in 1 .. Min(limit, IF Len(s) > offset THEN Len(s) - offset ELSE 0)
        |-> s[offset + n]]

\* C8 as stated, with a 0-based page: offset = page * per_page, the page is
\* the window at that offset, prev_page iff page > 0.
C8_ZeroBasedPaging ==
    (last.op = "list" /\ last.resp.status = 200) =>
        LET p == last.req.page
            n == last.req.per_page
            offset == p * n
        IN  /\ ItemIds(last.resp.movies) = Window(DOMAIN movies, offset, n)
            /\ last.resp.total_pages = CeilDiv(last.resp.total_items, n)
            /\ last.resp.prev_page # {} <=> p > 0
            /\ last.resp.next_page # {} <=> offset + n < last.resp.total_items

\* The worked example, on the code's 1-based pages.
C8_Example ==
    LET ids == 1 .. 25
        resp(p) == list_response(p, 10,
                       SelectPageIds(ids, ListOffset(p, 10), 10), 25)
    IN  /\ resp(1).status = 200 /\ resp(3).status = 200
        /\ Len(resp(1).movies) = 10
        /\ resp(1).prev_page = {} /\ resp(1).next_page = {PageLink(2, 10)}
        /\ Len(resp(3).movies) = 5
        /\ resp(3).prev_page = {PageLink(2, 10)} /\ resp(3).next_page = {}
        /\ resp(3).total_pages = 3
        /\ resp(4).status = 404

\* C8, amended: pages are 1-based. offset = (page - 1) * per_page;
\* total_items is what the request's count query saw; the page is the window
\* at offset of the id-ordered store as the page query sees it;
\* total_pages = ceil(total_items / per_page); prev_page iff page > 1,
\* next_page iff offset + per_page < total_items, each with the adjacent page
\* number and the same per_page; page 0 is refused.
C8_OneBasedPaging ==
    /\ []C8_Example
    /\ [][\A t \in Tasks :
            (pc[t] = "idle" /\ pc'[t] = "list_page")
               => loc'[t].total = Cardinality(DOMAIN movies)]_vars
    /\ [][\A t \in Tasks :
            (pc[t] = "list_page" /\ last'.op = "list" /\ last'.task = t
                /\ last'.resp.status = 200)
               => last'.resp.total_items = loc[t].total]_vars
    /\ [](last.op = "list" =>
            LET p == last.req.page
                n == last.req.per_page
                offset == (p - 1) * n
            IN  /\ (p < 1 \/ n < 1 \/ n > PerPageLimit) => last.resp.status = 422
                /\ last.resp.status = 200 =>
                    /\ ItemIds(last.resp.movies) = Window(DOMAIN movies, offset, n)
                    /\ last.resp.total_pages = CeilDiv(last.resp.total_items, n)
                    /\ last.resp.prev_page =
                          (IF p > 1 THEN {[page |-> p - 1, per_page |-> n]}
                           ELSE {})
                    /\ last.resp.next_page =
                          (IF offset + n < last.resp.total_items
                           THEN {[page |-> p + 1, per_page |-> n]} ELSE {}))

\* A middle page: one movie, a previous and a next page.
C8_Witness ==
    /\ last.op = "list"
    /\ last.resp.status = 200
    /\ last.req.page = 2
    /\ Len(last.resp.movies) = 1
    /\ last.resp.prev_page # {} /\ last.resp.next_page # {}

\* C9 as stated, against the store the response is produced from: 404 for an
\* empty store and for an offset at or past the end, and otherwise 200 with a
\* page that is not empty.
C9_NeverAnEmptyPage ==
    (last.op = "list" /\ last.resp.status # 422) =>
        LET offset == (last.req.page - 1) * last.req.per_page
            total == Cardinality(DOMAIN movies)
        IN  /\ offset >= total => last.resp.status = 404
            /\ offset < total =>
                  last.resp.status = 200 /\ last.resp.movies # <<>>

\* C9, amended: the answer is 404 exactly when the total the request counted
\* is 0 or offset >= that total, and 200 otherwise; the page of a 200 answer
\* is non-empty exactly when the store still holds more than offset movies at
\* the page query, which comes after the count.
C9_PageNotFoundOnCountedTotal ==
    /\ [][\A t \in Tasks :
            (pc[t] = "list_page" /\ last'.op = "list" /\ last'.task = t) =>
                LET offset == (loc[t].page - 1) * loc[t].per_page IN
                /\ last'.resp.status \in {200, 404}
                /\ last'.resp.status = 404
                      <=> (loc[t].total = 0 \/ offset >= loc[t].total)]_vars
    /\ []((last.op = "list" /\ last.resp.status = 200) =>
            (last.resp.movies # <<>>
               <=> (last.req.page - 1) * last.req.per_page
                      < Cardinality(DOMAIN movies)))

\* Page 1 of an empty store is answered 404.
C9_Witness ==
    /\ last.op = "list"
    /\ last.req.page = 1
    /\ last.resp.status = 404
    /\ DOMAIN movies = {}

====
